---- MODULE Spec2Model ----
(***************************************************************************)
(* qtrader execution engine (src/qtrader/core/engine.py): reconciliation   *)
(* of the broker snapshot, the sqlite ledger (tables "balance" and         *)
(* "position") and the in-memory portfolio, plus the persistence loop.     *)
(*                                                                         *)
(* Conventions.                                                            *)
(*  - A Python Optional is a sequence of length 0 (None) or 1 (a value).   *)
(*  - The ledger filter (broker_name, broker_environment, broker_account)  *)
(*    is always used as one triple; it is modelled by one value, the       *)
(*    broker account of GATEWAY.                                           *)
(*  - Money, quantities and prices are integers; Python's float division  *)
(*    in the remainder price is modelled by integer division.              *)
(*  - The "balance" table is a sequence: the row id is the index (sqlite   *)
(*    autoincrement; balance rows are never deleted).  The "position"      *)
(*    table is a set of rows (the row id is read nowhere in the code).     *)
(*  - A ledger connection is a name: "main" is the DB() opened by          *)
(*    Engine.__init__, "loop" the DB() opened by persist_data.  A ledger    *)
(*    operation on a closed connection raises.                             *)
(***************************************************************************)
EXTENDS Integers, Sequences, FiniteSets, TLC

\* ------------------------------------------------------------- bounds
MaxCash == 2
MaxPower == 1
MaxQty == 2
MaxPrice == 1

\* ---------------------------------------------------------- constants
\* strategy_account of the default row (engine.py:157, :189, :243)
DefaultAccount == "default"
\* strategy_version the default row is looked up with (engine.py:244)
DefaultVersion == "1.0"
\* max_power_short / net_cash_power written at bootstrap (engine.py:163-164)
NoPower == -1
\* holding_price sentinel of a zero remainder (engine.py:297)
SentinelPrice == -1

\* GATEWAY["broker_account"] values of the runs sharing one ledger file
BrokerAccounts == {"acc1", "acc2"}
Securities == {"A", "B"}
\* qtrader.core.constants.Direction members and their .name
Direction == {"Direction.LONG", "Direction.SHORT", "Direction.NET"}

None == <<>>
Some(x) == <<x>>
IsNone(o) == Len(o) = 0
Val(o) == o[1]

VARIABLES
    gateway,           \* GATEWAY["broker_account"] of the running process
    has_db,            \* hasattr(engine, "db")
    strategy_account,  \* engine.strategy_account
    strategy_version,  \* engine.strategy_version
    portfolio,         \* engine.portfolio: [account_balance, position]
    balance,           \* ledger table "balance"
    position,          \* ledger table "position"
    persist_active,    \* engine.persist_active
    persist_t,         \* engine._persist_t: "new", "alive" or "dead"
    pc,                \* where persist_data stands
    db,                \* engine.db: the connection the attribute refers to
    closed,            \* the connections that have been closed
    last,              \* the step that ran last: [op, reply, outcome, writes, again, conn]
    sync_call,         \* locals of the sync_broker_position under way
    persist_call,      \* locals of the persist_position under way
    before             \* what a race of one sync and one tick started from

vars == <<gateway, has_db, strategy_account, strategy_version, portfolio,
          balance, position, persist_active, persist_t, pc, db, closed, last,
          sync_call, persist_call, before>>

\* ------------------------------------------------------------ helpers
\* sum(df[field]): the sum of column `field` over the rows `ids` of `rows`
RECURSIVE SumField(_, _, _)
SumField(rows, ids, field) ==
    IF ids = {} THEN 0
    ELSE LET i == CHOOSE j \in ids : TRUE
         IN rows[i][field] + SumField(rows, ids \ {i}, field)

Max(S) == CHOOSE x \in S : \A y \in S : y <= x
Min(S) == CHOOSE x \in S : \A y \in S : x <= y

\* AccountBalance(cash, power, max_power_short, net_cash_power)
AccountBalance(c, p, m, n) ==
    [cash |-> c, power |-> p, max_power_short |-> m, net_cash_power |-> n]

\* AccountBalance(cash=init_strategy_cash): the other fields take the
\* dataclass defaults
NewAccountBalance(c) == AccountBalance(c, 0, NoPower, NoPower)

\* PositionData(security, direction, holding_price, quantity)
PositionData(s, d, hp, q) ==
    [security |-> s, direction |-> d, holding_price |-> hp, quantity |-> q]

\* (mutant) str(direction) is stored instead of direction.name
DirectionName_str(d) == d

\* Direction.name
DirectionName(d) ==
    CASE d = "Direction.LONG" -> "LONG"
      [] d = "Direction.SHORT" -> "SHORT"
      [] d = "Direction.NET" -> "NET"

\* convert_direction_db2qt: None stands for the ValueError
convert_direction_db2qt(direction) ==
    IF direction = "LONG" THEN Some("Direction.LONG")
    ELSE IF direction = "SHORT" THEN Some("Direction.SHORT")
    ELSE IF direction = "NET" THEN Some("Direction.NET")
    ELSE None

\* Position(): the empty position table
EmptyPosition == {}

\* Position.update(position_data, offset=Offset.OPEN)
PositionUpdate(pos, pd) ==
    {x \in pos : ~(x.security = pd.security /\ x.direction = pd.direction)}
        \cup {pd}

\* Position.get_all_positions()
get_all_positions(pos) == pos

\* ------------------------------------------------------ ledger primitives
\* ids of the balance rows of the configured broker account
\* (select_records(table_name="balance", broker_name=.., broker_environment=..,
\*  broker_account=..))
BalanceIdsOf(bal, g) == {i \in 1..Len(bal) : bal[i].broker_account = g}

\* ... further filtered by strategy_account and strategy_version
StrategyIdsOf(bal, g, sa, sv) ==
    {i \in BalanceIdsOf(bal, g) :
        bal[i].strategy_account = sa /\ bal[i].strategy_version = sv}

\* a balance row as insert_records writes it
BalanceRow(g, baid, said, sa, sv, c, p, m, n) ==
    [broker_account |-> g, broker_account_id |-> baid,
     strategy_account_id |-> said, strategy_account |-> sa,
     strategy_version |-> sv, cash |-> c, power |-> p,
     max_power_short |-> m, net_cash_power |-> n]

\* a position row as insert_records writes it
PositionRow(bid, pd) ==
    [balance_id |-> bid, security |-> pd.security,
     direction |-> DirectionName(pd.direction),
     holding_price |-> pd.holding_price, quantity |-> pd.quantity]

\* the record kept of the step that ran last: its name, the broker reply it
\* used (None when it asks the broker nothing), how it ended, the number of
\* ledger writes it issued, whether the step before it was the same one with
\* the same reply, and the connection its ledger operations went through
\* (None when it issues none).  op is the first field: two records are told
\* apart by it before replies of different kinds are compared.
Handled(op, reply, r, conn) ==
    [op |-> op, reply |-> reply, outcome |-> r.outcome, writes |-> r.writes,
     again |-> (last.op = op /\ last.reply = reply), conn |-> conn]

Plain(op, outcome) ==
    [op |-> op, reply |-> None, outcome |-> outcome, writes |-> 0,
     again |-> FALSE, conn |-> None]

\* what a handler hands back: the new tables and portfolio, how it ended
\* ("done", "noop", "fatal") and how many ledger writes it issued
Result(bal, pos, pf, outcome, writes) ==
    [balance |-> bal, position |-> pos, portfolio |-> pf,
     outcome |-> outcome, writes |-> writes]

\* ------------------------------------------------------ get_db_balance
\* [fatal, value]: fatal is the assertion of line 91, value the Optional
\* AccountBalance returned
get_db_balance(bal, sa, sv) ==
    LET balance_df == StrategyIdsOf(bal, gateway, sa, sv)
    IN IF balance_df = {} THEN [fatal |-> FALSE, value |-> None]
       ELSE IF Cardinality(balance_df) # 1 THEN [fatal |-> TRUE, value |-> None]
       ELSE LET r == bal[CHOOSE i \in balance_df : TRUE]
            IN [fatal |-> FALSE,
                value |-> Some(AccountBalance(r.cash, r.power,
                                  r.max_power_short, r.net_cash_power))]

\* ------------------------------------------------- sync_broker_balance
\* broker_account_id / strategy_account_id of a first-time sync
\* (mutant) every broker account takes broker_account_id 1
NewBrokerAccountId_first(bal) == 1

NewBrokerAccountId(bal) ==
    IF Len(bal) = 0 THEN 1
    ELSE Max({bal[i].broker_account_id : i \in 1..Len(bal)}) + 1

NewStrategyAccountId(bal) ==
    IF Len(bal) = 0 THEN 1
    ELSE Max({bal[i].strategy_account_id : i \in 1..Len(bal)}) + 1

\* strategy_version written to the default row at bootstrap
DefaultRowVersion(sv) == sv

\* (mutant) the default row takes the whole broker value
BootstrapDelta_whole(broker_val, local_val) == broker_val

\* what the default row takes of one field at bootstrap
BootstrapDelta(broker_val, local_val) == broker_val - local_val

\* (mutant) the bootstrap is not guarded
BootstrapAllowed_unchecked(cash, power) == TRUE

\* the two assertions that guard the bootstrap
BootstrapAllowed(cash, power) == cash >= 0 /\ power >= 0

\* first time: no balance row of the broker account exists
FirstTimeBalance(bb) ==
    IF IsNone(portfolio.account_balance)
    THEN Result(balance, position, portfolio, "fatal", 0)
    ELSE
    LET local == Val(portfolio.account_balance)
        broker_account_id == NewBrokerAccountId(balance)
        strategy_account_id == NewStrategyAccountId(balance)
        cash == BootstrapDelta(bb.cash, local.cash)
        power == BootstrapDelta(bb.power, local.power)
        default_row == BalanceRow(gateway, broker_account_id,
                           strategy_account_id, DefaultAccount,
                           DefaultRowVersion(strategy_version),
                           cash, power, NoPower, NoPower)
        strategy_row == BalanceRow(gateway, broker_account_id,
                           strategy_account_id + 1, strategy_account,
                           strategy_version, local.cash, local.power,
                           NoPower, NoPower)
    IN IF ~BootstrapAllowed(cash, power)
       THEN Result(balance, position, portfolio, "fatal", 0)
       ELSE Result(Append(Append(balance, default_row), strategy_row),
                   position, portfolio, "done", 2)

\* (mutant) the sign of the delta is flipped
DeltaVal_flipped(broker_val, field_sum) == field_sum - broker_val

\* delta_val of one field
DeltaVal(broker_val, field_sum) == broker_val - field_sum

\* (mutant) the update is not guarded
UpdateAllowed_unchecked(current_val, delta_val) == TRUE

\* the assertion that guards the update of one field of the default row
UpdateAllowed(current_val, delta_val) == current_val + delta_val >= 0

\* (mutant) the default row takes the delta as its value
UpdatedValue_delta(current_val, delta_val) == delta_val

\* the value update_records writes to the default row
UpdatedValue(current_val, delta_val) == current_val + delta_val

\* one iteration of `for field in fields` on table bal; balance_df is the
\* frame read before the loop
SyncField(bal, balance_df, id_, bb, field) ==
    LET delta_val == DeltaVal(bb[field], SumField(balance, balance_df, field))
        current_val == balance[id_][field]
    IN IF ~UpdateAllowed(current_val, delta_val)
       THEN [fatal |-> TRUE, balance |-> bal, writes |-> 0]
       ELSE IF delta_val # 0
       THEN [fatal |-> FALSE,
             balance |-> [bal EXCEPT ![id_][field] =
                                     UpdatedValue(current_val, delta_val)],
             writes |-> 1]
       ELSE [fatal |-> FALSE, balance |-> bal, writes |-> 0]

\* subsequent times: update the default row
SubsequentBalance(bb, balance_df) ==
    LET defaults == {i \in balance_df :
                        balance[i].strategy_account = DefaultAccount}
    IN IF defaults = {}
       THEN Result(balance, position, portfolio, "fatal", 0)
       ELSE
       LET id_ == Min(defaults)
           c == SyncField(balance, balance_df, id_, bb, "cash")
       IN IF c.fatal
          THEN Result(c.balance, position, portfolio, "fatal", c.writes)
          ELSE
          LET p == SyncField(c.balance, balance_df, id_, bb, "power")
          IN Result(p.balance, position, portfolio,
                    IF p.fatal THEN "fatal" ELSE "done",
                    c.writes + p.writes)

\* the re-read that ends a sync with a ledger
Reread(r) ==
    IF r.outcome = "fatal" THEN r
    ELSE LET b == get_db_balance(r.balance, strategy_account, strategy_version)
         IN IF b.fatal
            THEN [r EXCEPT !.outcome = "fatal"]
            ELSE [r EXCEPT !.portfolio.account_balance = b.value]

\* (mutant) the ledger-less branch is taken before the reply is looked at
sync_broker_balance_late_check(broker_balance) ==
    IF ~has_db
    THEN Result(balance, position,
                [portfolio EXCEPT !.account_balance = broker_balance],
                "done", 0)
    ELSE IF IsNone(broker_balance)
    THEN Result(balance, position, portfolio, "noop", 0)
    ELSE LET bb == Val(broker_balance)
             balance_df == BalanceIdsOf(balance, gateway)
         IN Reread(IF balance_df = {} THEN FirstTimeBalance(bb)
                   ELSE SubsequentBalance(bb, balance_df))

sync_broker_balance(broker_balance) ==
    IF IsNone(broker_balance)
    THEN Result(balance, position, portfolio, "noop", 0)
    ELSE IF ~has_db
    THEN Result(balance, position,
                [portfolio EXCEPT !.account_balance = broker_balance],
                "done", 0)
    ELSE LET bb == Val(broker_balance)
             balance_df == BalanceIdsOf(balance, gateway)
         IN Reread(IF balance_df = {} THEN FirstTimeBalance(bb)
                   ELSE SubsequentBalance(bb, balance_df))


\* ------------------------------------------------------ get_db_position
\* the Position built by the loop over the rows: one update per row.
\* [fatal, value]: fatal is the ValueError of convert_direction_db2qt
RECURSIVE LoadRows(_, _)
LoadRows(rows, pos) ==
    IF rows = {} THEN [fatal |-> FALSE, value |-> Some(pos)]
    ELSE LET row == CHOOSE r \in rows : TRUE
             d == convert_direction_db2qt(row.direction)
         IN IF IsNone(d) THEN [fatal |-> TRUE, value |-> None]
            ELSE LoadRows(rows \ {row},
                     PositionUpdate(pos, PositionData(row.security, Val(d),
                                        row.holding_price, row.quantity)))

get_db_position(pos_table, balance_id) ==
    LET position_df == {r \in pos_table : r.balance_id = balance_id}
    IN IF position_df = {} THEN [fatal |-> FALSE, value |-> None]
       ELSE LoadRows(position_df, EmptyPosition)

\* ------------------------------------------------ sync_broker_position
\* the remainder left of broker entry brk_pos once ledger row db_pos is
\* deducted (quantity >= 0 here)
Remainder(brk_pos, db_pos) ==
    LET quantity == brk_pos.quantity - db_pos.quantity
        holding_price ==
            IF quantity > 0
            THEN (brk_pos.holding_price * brk_pos.quantity
                  - db_pos.holding_price * db_pos.quantity) \div quantity
            ELSE SentinelPrice
    IN PositionData(db_pos.security, db_pos.direction, holding_price, quantity)

\* the broker entries ledger row db_pos is deducted from
Matching(all_broker_positions, db_pos) ==
    {b \in all_broker_positions :
        b.security = db_pos.security /\ b.direction = db_pos.direction}

\* (mutant) the remainder is never refused
Overdrawn_never(brk_pos, db_pos) == FALSE

\* the ledger row holds more than the broker entry: the ValueError
Overdrawn(brk_pos, db_pos) == brk_pos.quantity - db_pos.quantity < 0

\* the loop over nondefault_position_df: every row is deducted from the
\* broker entries with its key.  [fatal, positions]
RECURSIVE Deduct(_, _)
Deduct(rows, all_broker_positions) ==
    IF rows = {}
    THEN [fatal |-> FALSE, positions |-> all_broker_positions]
    ELSE LET row == CHOOSE r \in rows : TRUE
             d == convert_direction_db2qt(row.direction)
         IN IF IsNone(d)
            THEN [fatal |-> TRUE, positions |-> all_broker_positions]
            ELSE
            LET db_pos == PositionData(row.security, Val(d),
                              row.holding_price, row.quantity)
                hit == Matching(all_broker_positions, db_pos)
            IN IF \E b \in hit : Overdrawn(b, db_pos)
               THEN [fatal |-> TRUE, positions |-> all_broker_positions]
               ELSE Deduct(rows \ {row},
                        (all_broker_positions \ hit)
                            \cup {Remainder(b, db_pos) : b \in hit})

\* (mutant) every broker entry is written
Inserted_all(all_broker_positions) == all_broker_positions

\* the broker entries written to the default account on later syncs
Inserted(all_broker_positions) ==
    {b \in all_broker_positions : b.quantity > 0}

\* first time: no position row of the broker account exists
FirstTimePosition(all_broker_positions, default_balance_id) ==
    Result(balance,
           position \cup {PositionRow(default_balance_id, b) :
                             b \in all_broker_positions},
           [portfolio EXCEPT !.position = EmptyPosition],
           "done", Cardinality(all_broker_positions))

\* later: the default account takes what the other accounts leave
SubsequentPosition(all_broker_positions, position_df, default_balance_id, strat_balance_id) ==
    LET nondefault_position_df ==
            {r \in position_df : r.balance_id # default_balance_id}
        left == Deduct(nondefault_position_df, all_broker_positions)
    IN IF left.fatal
       THEN Result(balance, position, portfolio, "fatal", 0)
       ELSE
       LET kept == {r \in position : r.balance_id # default_balance_id}
           written == kept \cup {PositionRow(default_balance_id, b) :
                                       b \in Inserted(left.positions)}
           writes == 1 + Cardinality(Inserted(left.positions))
           p == get_db_position(written, strat_balance_id)
       IN IF p.fatal
          THEN Result(balance, written, portfolio, "fatal", writes)
          ELSE Result(balance, written,
                      [portfolio EXCEPT !.position =
                          IF IsNone(p.value) THEN EmptyPosition
                          ELSE Val(p.value)],
                      "done", writes)

\* the in-memory positions after one update per broker position
RECURSIVE UpdateAll(_, _)
UpdateAll(pos, all_broker_positions) ==
    IF all_broker_positions = {} THEN pos
    ELSE LET b == CHOOSE x \in all_broker_positions : TRUE
         IN UpdateAll(PositionUpdate(pos, b), all_broker_positions \ {b})

\* whether the reply of get_all_broker_positions() is taken as unavailable
Unavailable(reply) == IsNone(reply)

sync_broker_position(reply) ==
    IF Unavailable(reply)
    THEN Result(balance, position, portfolio, "noop", 0)
    ELSE
    LET all_broker_positions == Val(reply)
    IN IF ~has_db
       THEN Result(balance, position,
                   [portfolio EXCEPT !.position =
                       UpdateAll(portfolio.position, all_broker_positions)],
                   "done", 0)
       ELSE
       LET balance_df == BalanceIdsOf(balance, gateway)
           strat == StrategyIdsOf(balance, gateway, strategy_account,
                                  strategy_version)
           position_df == {r \in position : r.balance_id \in balance_df}
           default_balance_df ==
               {i \in balance_df :
                   /\ balance[i].strategy_account = DefaultAccount
                   /\ balance[i].strategy_version = DefaultVersion}
       IN IF balance_df = {} \/ strat = {}
             \/ Cardinality(default_balance_df) # 1
          THEN Result(balance, position, portfolio, "fatal", 0)
          ELSE
          LET default_balance_id == CHOOSE i \in default_balance_df : TRUE
              strat_balance_id == Min(strat)
          IN IF position_df = {}
             THEN FirstTimePosition(all_broker_positions, default_balance_id)
             ELSE SubsequentPosition(all_broker_positions, position_df,
                      default_balance_id, strat_balance_id)

\* ------------------------------------------------------- persistence
\* (mutant) every field is written, whether it differs or not
Updates_all(account_balance, db_balance) ==
    {"cash", "power", "max_power_short", "net_cash_power"}

\* the fields of the in-memory balance that differ from the ledger row
Updates(account_balance, db_balance) ==
    {f \in {"cash", "power", "max_power_short", "net_cash_power"} :
        account_balance[f] # db_balance[f]}

\* the rows update_records(strategy_account=.., strategy_version=..) hits
UpdatedIds(bal, sa, sv) ==
    {i \in 1..Len(bal) :
        bal[i].strategy_account = sa /\ bal[i].strategy_version = sv}

\* a row with the columns `updates` set from the in-memory balance
UpdatedRow(row, updates, account_balance) ==
    [f \in DOMAIN row |->
        IF f \in updates THEN account_balance[f] ELSE row[f]]

\* persist_account_balance on tables (bal, pos): a Result
persist_account_balance(bal, pos) ==
    LET db_balance == get_db_balance(bal, strategy_account, strategy_version)
    IN IF db_balance.fatal THEN Result(bal, pos, portfolio, "fatal", 0)
       ELSE IF IsNone(db_balance.value)
       THEN Result(bal, pos, portfolio, "noop", 0)
       ELSE IF IsNone(portfolio.account_balance)
       THEN Result(bal, pos, portfolio, "fatal", 0)
       ELSE
       LET updates == Updates(Val(portfolio.account_balance),
                              Val(db_balance.value))
           hit == UpdatedIds(bal, strategy_account, strategy_version)
       IN IF updates = {} THEN Result(bal, pos, portfolio, "done", 0)
          ELSE Result([i \in 1..Len(bal) |->
                          IF i \in hit
                          THEN UpdatedRow(bal[i], updates,
                                   Val(portfolio.account_balance))
                          ELSE bal[i]],
                      pos, portfolio, "done", 1)

\* (mutant) a missing balance row is not looked for
NoBalanceRow_ignored(balance_df) == FALSE

\* balance_df.empty: the ledger holds no balance row of the strategy yet
NoBalanceRow(balance_df) == balance_df = {}

\* persist_position on tables (bal, pos): a Result
persist_position(bal, pos) ==
    LET balance_df == StrategyIdsOf(bal, gateway, strategy_account,
                                    strategy_version)
    IN IF NoBalanceRow(balance_df)
       THEN Result(bal, pos, portfolio, "noop", 0)
       ELSE IF Cardinality(balance_df) # 1
       THEN Result(bal, pos, portfolio, "fatal", 0)
       ELSE
       LET balance_id == CHOOSE i \in balance_df : TRUE
           db_position == get_db_position(pos, balance_id)
       IN IF db_position.fatal THEN Result(bal, pos, portfolio, "fatal", 0)
          ELSE
          LET any == ~IsNone(db_position.value)
              kept == IF any THEN {r \in pos : r.balance_id # balance_id}
                      ELSE pos
              all == get_all_positions(portfolio.position)
          IN Result(bal,
                    kept \cup {PositionRow(balance_id, pd) : pd \in all},
                    portfolio, "done",
                    (IF any THEN 1 ELSE 0) + Cardinality(all))

\* one iteration of the loop of persist_data
persist_data_iteration ==
    LET b == persist_account_balance(balance, position)
    IN IF b.outcome = "fatal" THEN b
       ELSE LET p == persist_position(b.balance, b.position)
            IN [p EXCEPT !.writes = b.writes + p.writes,
                         !.outcome = IF p.outcome = "fatal" THEN "fatal"
                                     ELSE IF b.outcome = "noop"
                                             /\ p.outcome = "noop"
                                     THEN "noop" ELSE "done"]


\* ------------------------------------------------------------ inputs
\* the identities (strategy_account, strategy_version) a run is given
Identities == {<<"s1", "1.0">>, <<"s2", "2.0">>}
\* replies of market.get_broker_balance() with cash and power up to the
\* given maxima
BrokerBalances(maxc, maxp) ==
    {None} \cup {Some(AccountBalance(c, p, NoPower, NoPower)) :
                    c \in 0..maxc, p \in 0..maxp}

\* in-memory balances a deal can leave
TradedBalances(maxc, maxp, others) ==
    {AccountBalance(c, p, m, n) :
        c \in 0..maxc, p \in 0..maxp, m \in others, n \in others}

\* one lot of security B short at price 1
OneB == PositionData("B", "Direction.SHORT", 1, 1)

\* position lists, at most one entry per (security, direction): security
\* A long in any of the given quantities at any price up to MaxPrice, with
\* or without any of the given other entries
PositionLists(quantities, others) ==
    LET a == {{}} \cup {{PositionData("A", "Direction.LONG", hp, q)} :
                           hp \in 1..MaxPrice, q \in quantities}
    IN {x \cup y : x \in a, y \in SUBSET others}

\* replies of market.get_all_broker_positions()
BrokerPositions ==
    {None} \cup {Some(l) : l \in PositionLists(0..MaxQty, {OneB})}

\* the configurations (broker account, ledger plugin, identity) of a run
Configs(accounts) == accounts \X BOOLEAN \X Identities

\* the configurations with the ledger plugin
LedgerConfigs(accounts) == accounts \X {TRUE} \X Identities

Apply(r) ==
    /\ balance' = r.balance
    /\ position' = r.position
    /\ portfolio' = r.portfolio

engine == <<gateway, has_db, strategy_account, strategy_version>>
thread == <<persist_active, persist_t, pc>>
connections == <<db, closed>>
ledger == <<balance, position>>
calls == <<sync_call, persist_call, before>>

\* ------------------------------------------------------- connections
\* the connection self.db of a sync on the caller's thread that gets as far
\* as the ledger: None when the reply is None or no ledger is configured
SyncConnection(reply) ==
    IF has_db /\ ~IsNone(reply) THEN Some(db) ELSE None

\* what handler result r becomes when its ledger operations go through
\* connection conn: the first operation on a closed connection raises
OnConnection(conn, r) ==
    IF ~IsNone(conn) /\ Val(conn) \in closed
    THEN Result(balance, position, portfolio, "fatal", 0)
    ELSE r

\* -------------------------------------------------------------- Init
\* Engine.__init__ of a process with configuration (g, plugin)
Engine_init(g, plugin) ==
    /\ gateway' = g
    /\ has_db' = plugin
    /\ db' = IF plugin THEN "main" ELSE "none"
    /\ closed' = {}
    /\ persist_active' = FALSE
    /\ persist_t' = "new"
    /\ pc' = "new"
    /\ sync_call' = None
    /\ persist_call' = None
    /\ before' = None

init_portfolio(sa, sv, init_strategy_cash) ==
    /\ strategy_account' = sa
    /\ strategy_version' = sv
    /\ portfolio' = [account_balance |->
                         Some(NewAccountBalance(init_strategy_cash)),
                     position |-> EmptyPosition]

\* a freshly constructed engine on an empty ledger
InitOf(configs, cashes) ==
    /\ \E cfg \in configs :
          /\ gateway = cfg[1]
          /\ has_db = cfg[2]
          /\ db = IF cfg[2] THEN "main" ELSE "none"
          /\ strategy_account = cfg[3][1]
          /\ strategy_version = cfg[3][2]
    /\ \E c \in cashes :
          portfolio = [account_balance |-> Some(NewAccountBalance(c)),
                       position |-> EmptyPosition]
    /\ balance = <<>>
    /\ position = {}
    /\ closed = {}
    /\ persist_active = FALSE
    /\ persist_t = "new"
    /\ pc = "new"
    /\ sync_call = None
    /\ persist_call = None
    /\ before = None
    /\ last = Plain("init_portfolio", "done")

\* ----------------------------------------------------------- actions
\* a new process on the same ledger file: Engine(market), init_portfolio(..)
LaunchOf(configs, cashes) ==
    \E cfg \in configs, c \in cashes :
        /\ Engine_init(cfg[1], cfg[2])
        /\ init_portfolio(cfg[3][1], cfg[3][2], c)
        /\ last' = Plain("init_portfolio", "done")
        /\ UNCHANGED ledger

SyncBalanceOf(replies) ==
    \E b \in replies :
        LET conn == SyncConnection(b)
            r == OnConnection(conn, sync_broker_balance(b))
        IN /\ Apply(r)
           /\ last' = Handled("sync_broker_balance", b, r, conn)
           /\ UNCHANGED <<engine, thread, connections, calls>>

SyncPositionOf(replies) ==
    \E l \in replies :
        LET conn == SyncConnection(l)
            r == OnConnection(conn, sync_broker_position(l))
        IN /\ Apply(r)
           /\ last' = Handled("sync_broker_position", l, r, conn)
           /\ UNCHANGED <<engine, thread, connections, calls>>

\* Engine.start: the flag is set, then Thread.start() (a RuntimeError when
\* the thread was started before)
StartThread ==
    /\ has_db
    /\ persist_active' = TRUE
    /\ persist_t' = IF persist_t = "new" THEN "alive" ELSE persist_t
    /\ pc' = IF persist_t = "new" THEN "open" ELSE pc
    /\ last' = Plain("start", IF persist_t = "new" THEN "done" ELSE "fatal")
    /\ UNCHANGED <<engine, portfolio, ledger, connections, calls>>

\* persist_data, before the loop: engine.db becomes a connection of its own
OpenConnection ==
    /\ pc = "open"
    /\ db' = "loop"
    /\ pc' = "test"
    /\ last' = Plain("persist_open", "done")
    /\ UNCHANGED <<engine, portfolio, ledger, persist_active, persist_t,
                   closed, calls>>

\* (mutant) the loop never looks at the flag
LoopContinues_always(active) == TRUE

\* the condition of `while engine.persist_active`
LoopContinues(active) == active

\* persist_data: the test of the while loop
TestFlag ==
    /\ pc = "test"
    /\ pc' = IF LoopContinues(persist_active) THEN "balance" ELSE "close"
    /\ last' = Plain("persist_test", "done")
    /\ UNCHANGED <<engine, portfolio, ledger, persist_active, persist_t,
                   connections, calls>>

\* where the thread goes after a call that ended as r
AfterCall(r, next) ==
    /\ pc' = IF r.outcome = "fatal" THEN "failed" ELSE next
    /\ persist_t' = IF r.outcome = "fatal" THEN "dead" ELSE persist_t

\* persist_data: the call of persist_account_balance
PersistBalance ==
    /\ pc = "balance"
    /\ LET r == OnConnection(Some(db),
                    persist_account_balance(balance, position))
       IN /\ Apply(r)
          /\ AfterCall(r, "position")
          /\ last' = Handled("persist_account_balance", None, r, Some(db))
    /\ UNCHANGED <<engine, persist_active, connections, calls>>

\* persist_data: the call of persist_position and the sleep that follows
PersistPosition ==
    /\ pc = "position"
    /\ LET r == OnConnection(Some(db), persist_position(balance, position))
       IN /\ Apply(r)
          /\ AfterCall(r, "test")
          /\ last' = Handled("persist_position", None, r, Some(db))
    /\ UNCHANGED <<engine, persist_active, connections, calls>>

\* persist_data, after the loop: engine.db.close() and the thread ends
CloseConnection ==
    /\ pc = "close"
    /\ closed' = closed \cup {db}
    /\ pc' = "done"
    /\ persist_t' = "dead"
    /\ last' = Plain("persist_close", "done")
    /\ UNCHANGED <<engine, portfolio, ledger, persist_active, db, calls>>

\* Engine.stop: the flag is cleared and self.db is closed
Stop ==
    /\ has_db
    /\ persist_active' = FALSE
    /\ closed' = closed \cup {db}
    /\ last' = Plain("stop", "done")
    /\ UNCHANGED <<engine, portfolio, ledger, persist_t, pc, db, calls>>

\* Engine.start together with the first statements of the thread it starts
\* (StartThread, then OpenConnection), in the specifications that take the
\* steps of the thread one iteration at a time
Start ==
    /\ has_db
    /\ persist_active' = TRUE
    /\ persist_t' = IF persist_t = "new" THEN "alive" ELSE persist_t
    /\ pc' = IF persist_t = "new" THEN "test" ELSE pc
    /\ db' = IF persist_t = "new" THEN "loop" ELSE db
    /\ last' = Plain("start", IF persist_t = "new" THEN "done" ELSE "fatal")
    /\ UNCHANGED <<engine, portfolio, ledger, closed, calls>>

\* persist_data: one iteration of the loop (TestFlag, PersistBalance,
\* PersistPosition) taken as one step
Tick ==
    /\ pc = "test"
    /\ persist_active
    /\ LET r == OnConnection(Some(db), persist_data_iteration)
       IN /\ Apply(r)
          /\ AfterCall(r, "test")
          /\ last' = Handled("persist_data", None, r, Some(db))
    /\ UNCHANGED <<engine, persist_active, connections, calls>>

\* a deal changes the in-memory balance (Portfolio.update)
TradeBalanceOf(balances) ==
    \E b \in balances :
        /\ ~IsNone(portfolio.account_balance)
        /\ portfolio' = [portfolio EXCEPT !.account_balance = Some(b)]
        /\ last' = Plain("trade", "done")
        /\ UNCHANGED <<engine, thread, connections, ledger, calls>>

\* a deal changes the in-memory positions (Portfolio.update)
TradePositionOf(lists) ==
    \E l \in lists :
        /\ portfolio' = [portfolio EXCEPT !.position = l]
        /\ before' = None
        /\ last' = Plain("trade", "done")
        /\ UNCHANGED <<engine, thread, connections, ledger, sync_call,
                       persist_call>>

\* ------------------------------ sync_broker_position and persist_position,
\* ------------------------------ one ledger operation at a time
\* the position rows of table pos owned by the balance row of the running
\* strategy under the configured broker account
StrategyPositions(pos) ==
    {r \in pos : r.balance_id \in StrategyIdsOf(balance, gateway,
                                      strategy_account, strategy_version)}

\* the strategy has its balance row, and its position rows are the ones
\* persist_position writes for the in-memory positions
InLedger ==
    LET ids == StrategyIdsOf(balance, gateway, strategy_account,
                             strategy_version)
    IN /\ ids # {}
       /\ StrategyPositions(position)
             = {PositionRow(i, pd) : i \in ids, pd \in portfolio.position}

\* no iteration of the persistence loop is under way
TickIdle == pc \notin {"position", "delete", "read", "insert"}

\* the record of a race: the in-memory positions and the strategy's position
\* rows it started from, how far its sync_broker_position is ("no", "under",
\* "done") and how far its iteration is ("no", "under", "done"; "further"
\* and "checked" while and after the iteration that follows both)
Snapshot(s, t) ==
    Some([position |-> portfolio.position,
          rows |-> StrategyPositions(position), sync |-> s, tick |-> t])

\* the record once a sync_broker_position has begun
SyncBegins ==
    IF ~IsNone(before) /\ Val(before).sync = "no"
    THEN Some([Val(before) EXCEPT !.sync = "under"])
    ELSE IF TickIdle /\ InLedger THEN Snapshot("under", "no") ELSE None

\* the record once the sync_broker_position has returned
SyncEnds ==
    IF IsNone(before) THEN None
    ELSE Some([Val(before) EXCEPT !.sync = "done"])

\* the record once an iteration of the loop has begun
TickBegins ==
    IF IsNone(before) \/ Val(before).sync = "no"
    THEN IF IsNone(sync_call) /\ InLedger THEN Snapshot("no", "under")
         ELSE None
    ELSE IF Val(before).tick = "no"
    THEN Some([Val(before) EXCEPT !.tick = "under"])
    ELSE IF Val(before).sync = "done" /\ Val(before).tick = "done"
    THEN Some([Val(before) EXCEPT !.tick = "further"])
    ELSE None

\* the record once the iteration has ended
TickEnds ==
    IF IsNone(before) THEN None
    ELSE Some([Val(before) EXCEPT
                  !.tick = IF @ = "further" THEN "checked" ELSE "done"])

\* sync_broker_position raises in step op
SyncAbort(op) ==
    /\ sync_call' = None
    /\ before' = None
    /\ last' = Plain(op, "fatal")
    /\ UNCHANGED <<engine, portfolio, ledger, thread, connections,
                   persist_call>>

\* sync_broker_position goes on to `at` with `left` still to insert
SyncGoes(at, left, loaded) ==
    sync_call' = Some([Val(sync_call) EXCEPT
                          !.at = at, !.left = left, !.loaded = loaded])

\* sync_broker_position with a ledger, up to its first write: the reply of
\* the broker, the two selects, the deduction loop
SyncPositionBegin(replies) ==
    /\ has_db
    /\ IsNone(sync_call)
    /\ \E l \in replies :
        IF Unavailable(l)
        THEN /\ last' = Plain("sync_select", "noop")
             /\ UNCHANGED <<engine, portfolio, ledger, thread, connections,
                            calls>>
        ELSE
        LET all_broker_positions == Val(l)
            balance_df == BalanceIdsOf(balance, gateway)
            strat == StrategyIdsOf(balance, gateway, strategy_account,
                                   strategy_version)
            position_df == {r \in position : r.balance_id \in balance_df}
            default_balance_df ==
                {i \in balance_df :
                    /\ balance[i].strategy_account = DefaultAccount
                    /\ balance[i].strategy_version = DefaultVersion}
        IN IF \/ db \in closed
              \/ balance_df = {}
              \/ strat = {}
              \/ Cardinality(default_balance_df) # 1
           THEN SyncAbort("sync_select")
           ELSE
           LET default_balance_id == CHOOSE i \in default_balance_df : TRUE
               first == position_df = {}
               left == IF first
                       THEN [fatal |-> FALSE,
                             positions |-> all_broker_positions]
                       ELSE Deduct({r \in position_df :
                                       r.balance_id # default_balance_id},
                                   all_broker_positions)
           IN IF left.fatal THEN SyncAbort("sync_select")
              ELSE
              /\ sync_call' =
                    Some([at |-> IF ~first THEN "delete"
                                 ELSE IF all_broker_positions = {}
                                 THEN "assign" ELSE "insert",
                          first |-> first,
                          left |-> IF first THEN all_broker_positions
                                   ELSE Inserted(left.positions),
                          default_balance_id |-> default_balance_id,
                          strat_balance_id |-> Min(strat),
                          loaded |-> EmptyPosition])
              /\ before' = SyncBegins
              /\ last' = Plain("sync_select", "done")
              /\ UNCHANGED <<engine, portfolio, ledger, thread, connections,
                             persist_call>>

\* sync_broker_position: delete_records of the rows of the default account
SyncPositionDelete ==
    /\ ~IsNone(sync_call)
    /\ Val(sync_call).at = "delete"
    /\ IF db \in closed THEN SyncAbort("sync_delete")
       ELSE
       LET f == Val(sync_call)
       IN /\ position' = {r \in position :
                             r.balance_id # f.default_balance_id}
          /\ SyncGoes(IF f.left = {} THEN "reload" ELSE "insert",
                      f.left, f.loaded)
          /\ last' = Plain("sync_delete", "done")
          /\ UNCHANGED <<engine, portfolio, balance, thread, connections,
                         persist_call, before>>

\* sync_broker_position: one insert_records into the default account
SyncPositionInsert ==
    /\ ~IsNone(sync_call)
    /\ Val(sync_call).at = "insert"
    /\ IF db \in closed THEN SyncAbort("sync_insert")
       ELSE
       LET f == Val(sync_call)
           broker_position == CHOOSE b \in f.left : TRUE
           left == f.left \ {broker_position}
       IN /\ position' = position \cup
                 {PositionRow(f.default_balance_id, broker_position)}
          /\ SyncGoes(IF left # {} THEN "insert"
                      ELSE IF f.first THEN "assign" ELSE "reload",
                      left, f.loaded)
          /\ last' = Plain("sync_insert", "done")
          /\ UNCHANGED <<engine, portfolio, balance, thread, connections,
                         persist_call, before>>

\* sync_broker_position: get_db_position of the strategy's balance row
SyncPositionReload ==
    /\ ~IsNone(sync_call)
    /\ Val(sync_call).at = "reload"
    /\ LET f == Val(sync_call)
           p == get_db_position(position, f.strat_balance_id)
       IN IF db \in closed \/ p.fatal THEN SyncAbort("sync_reload")
          ELSE /\ SyncGoes("assign", f.left,
                           IF IsNone(p.value) THEN EmptyPosition
                           ELSE Val(p.value))
               /\ last' = Plain("sync_reload", "done")
               /\ UNCHANGED <<engine, portfolio, ledger, thread,
                              connections, persist_call, before>>

\* sync_broker_position: the assignment to portfolio.position, and return
SyncPositionAssign ==
    /\ ~IsNone(sync_call)
    /\ Val(sync_call).at = "assign"
    /\ portfolio' = [portfolio EXCEPT !.position = Val(sync_call).loaded]
    /\ sync_call' = None
    /\ before' = SyncEnds
    /\ last' = Plain("sync_assign", "done")
    /\ UNCHANGED <<engine, ledger, thread, connections, persist_call>>

\* the persistence thread dies of an exception raised in step op
PersistAbort(op) ==
    /\ pc' = "failed"
    /\ persist_t' = "dead"
    /\ persist_call' = None
    /\ before' = None
    /\ last' = Plain(op, "fatal")
    /\ UNCHANGED <<engine, portfolio, ledger, persist_active, connections,
                   sync_call>>

\* persist_position returns, the loop sleeps and is back at its test
TickEnd ==
    /\ pc' = "test"
    /\ persist_call' = None
    /\ before' = TickEnds

\* persist_data: the test of the loop and the call of
\* persist_account_balance, which reads and writes the balance table only
BeginTick ==
    /\ pc = "test"
    /\ LoopContinues(persist_active)
    /\ LET r == OnConnection(Some(db),
                    persist_account_balance(balance, position))
       IN IF r.outcome = "fatal" THEN PersistAbort("persist_account_balance")
          ELSE /\ Apply(r)
               /\ pc' = "position"
               /\ before' = TickBegins
               /\ last' = Handled("persist_account_balance", None, r,
                                  Some(db))
               /\ UNCHANGED <<engine, persist_active, persist_t,
                              connections, sync_call, persist_call>>

\* persist_position: the select of the balance row and get_db_position
PositionSelect ==
    /\ pc = "position"
    /\ LET balance_df == StrategyIdsOf(balance, gateway, strategy_account,
                                       strategy_version)
       IN IF db \in closed THEN PersistAbort("persist_select")
          ELSE IF NoBalanceRow(balance_df)
          THEN /\ TickEnd
               /\ last' = Plain("persist_select", "noop")
               /\ UNCHANGED <<engine, portfolio, ledger, persist_active,
                              persist_t, connections, sync_call>>
          ELSE IF Cardinality(balance_df) # 1
          THEN PersistAbort("persist_select")
          ELSE
          LET balance_id == CHOOSE i \in balance_df : TRUE
              db_position == get_db_position(position, balance_id)
          IN IF db_position.fatal THEN PersistAbort("persist_select")
             ELSE /\ persist_call' = Some([balance_id |-> balance_id,
                                           left |-> {}])
                  /\ pc' = IF ~IsNone(db_position.value) THEN "delete"
                           ELSE "read"
                  /\ last' = Plain("persist_select", "done")
                  /\ UNCHANGED <<engine, portfolio, ledger, persist_active,
                                 persist_t, connections, sync_call, before>>

\* persist_position: delete_records of the strategy's position rows
PositionDelete ==
    /\ pc = "delete"
    /\ IF db \in closed THEN PersistAbort("persist_delete")
       ELSE /\ position' = {r \in position :
                               r.balance_id # Val(persist_call).balance_id}
            /\ pc' = "read"
            /\ last' = Plain("persist_delete", "done")
            /\ UNCHANGED <<engine, portfolio, balance, persist_active,
                           persist_t, connections, calls>>

\* persist_position: the for statement reads
\* engine.portfolio.position.get_all_positions()
PositionRead ==
    /\ pc = "read"
    /\ LET left == get_all_positions(portfolio.position)
       IN /\ IF left = {}
             THEN TickEnd
             ELSE /\ persist_call' =
                         Some([Val(persist_call) EXCEPT !.left = left])
                  /\ pc' = "insert"
                  /\ before' = before
          /\ last' = Plain("persist_read", "done")
          /\ UNCHANGED <<engine, portfolio, ledger, persist_active,
                         persist_t, connections, sync_call>>

\* persist_position: one insert_records of the loop
PositionInsert ==
    /\ pc = "insert"
    /\ IF db \in closed THEN PersistAbort("persist_insert")
       ELSE
       LET f == Val(persist_call)
           position_data == CHOOSE pd \in f.left : TRUE
           left == f.left \ {position_data}
       IN /\ position' = position \cup
                 {PositionRow(f.balance_id, position_data)}
          /\ IF left = {}
             THEN TickEnd
             ELSE /\ persist_call' = Some([f EXCEPT !.left = left])
                  /\ pc' = "insert"
                  /\ before' = before
          /\ last' = Plain("persist_insert", "done")
          /\ UNCHANGED <<engine, portfolio, balance, persist_active,
                         persist_t, connections, sync_call>>

\* ---- Spec, the balance side: one broker account, balances up to MaxCash
\* ---- and MaxPower, no position held at the broker or by the strategy
Init == InitOf(Configs({"acc1"}), 0..MaxCash)
Launch == LaunchOf(Configs({"acc1"}), 0..MaxCash)
SyncBalance == SyncBalanceOf(BrokerBalances(MaxCash, MaxPower))
TradeBalance == TradeBalanceOf(TradedBalances(MaxCash, MaxPower, {NoPower}))

Next ==
    \/ Launch
    \/ SyncBalance
    \/ Start
    \/ Tick
    \/ TradeBalance

Spec == Init /\ [][Next]_vars

\* ---- SpecPosition, the position side: one broker account, a broker and a
\* ---- strategy with no money, positions of security A up to MaxQty at
\* ---- prices up to MaxPrice, security B held at the broker only
InitPosition == InitOf(Configs({"acc1"}), {0})
SyncBalancePosition == SyncBalanceOf(BrokerBalances(0, 0))
SyncPosition == SyncPositionOf(BrokerPositions)
TradePosition == TradePositionOf(PositionLists(1..MaxQty, {}))

NextPosition ==
    \/ SyncBalancePosition
    \/ SyncPosition
    \/ Start
    \/ Tick
    \/ TradePosition

SpecPosition == InitPosition /\ [][NextPosition]_vars

\* ---- SpecPersist, the persistence loop of one process: one broker account
\* ---- with a ledger, in-memory balances with cash up to MaxPower, no power,
\* ---- max_power_short and net_cash_power unset or 0, and in-memory
\* ---- positions of MaxQty of security A and one lot of security B
InitPersist == InitOf(LedgerConfigs({"acc1"}), 0..MaxPower)
SyncBalancePersist == SyncBalanceOf(BrokerBalances(MaxPower, 0))
TradeBalancePersist ==
    TradeBalanceOf(TradedBalances(MaxPower, 0, {NoPower, 0}))
TradePositionPersist == TradePositionOf(PositionLists({MaxQty}, {OneB}))

NextPersist ==
    \/ SyncBalancePersist
    \/ Start
    \/ Tick
    \/ TradeBalancePersist
    \/ TradePositionPersist

SpecPersist == InitPersist /\ [][NextPersist]_vars

\* ---- SpecThread, the two threads step by step: the caller's thread
\* ---- starts and stops the engine and syncs, the persistence thread takes
\* ---- one statement of persist_data at a time; one broker account with a
\* ---- ledger, no money, positions of security A
InitThread == InitOf(LedgerConfigs({"acc1"}), {0})
SyncBalanceThread == SyncBalanceOf(BrokerBalances(0, 0))
SyncPositionThread ==
    SyncPositionOf({None} \cup {Some(l) : l \in PositionLists({MaxQty}, {})})
TradePositionThread == TradePositionOf(PositionLists({1}, {}))

\* the steps of the persistence thread
ThreadStep ==
    \/ OpenConnection
    \/ TestFlag
    \/ PersistBalance
    \/ PersistPosition
    \/ CloseConnection

NextThread ==
    \/ SyncBalanceThread
    \/ SyncPositionThread
    \/ TradePositionThread
    \/ StartThread
    \/ Stop
    \/ ThreadStep

SpecThread == InitThread /\ [][NextThread]_vars

\* ---- SpecStop: SpecThread with a persistence thread that is scheduled
\* ---- again and again while it has a statement to run
SpecStop == InitThread /\ [][NextThread]_vars /\ WF_vars(ThreadStep)

\* ---- SpecAccounts, one ledger file shared by the runs of one strategy on
\* ---- two broker accounts: every run has the ledger plugin, cash and power
\* ---- are 0 or MaxPower, no position
AccountConfigs == BrokerAccounts \X {TRUE} \X {<<"s1", "1.0">>}
Amounts == {0, MaxPower}
InitAccounts == InitOf(AccountConfigs, Amounts)
LaunchAccounts == LaunchOf(AccountConfigs, Amounts)
SyncBalanceAccounts ==
    SyncBalanceOf({None} \cup {Some(AccountBalance(c, p, NoPower, NoPower)) :
                                  c \in Amounts, p \in Amounts})
TradeBalanceAccounts ==
    TradeBalanceOf({AccountBalance(c, p, NoPower, NoPower) :
                       c \in Amounts, p \in Amounts})

NextAccounts ==
    \/ LaunchAccounts
    \/ SyncBalanceAccounts
    \/ Start
    \/ Tick
    \/ TradeBalanceAccounts

SpecAccounts == InitAccounts /\ [][NextAccounts]_vars

\* ---- SpecRace, a sync_broker_position on the caller's thread against the
\* ---- persistence thread, one ledger operation at a time: one broker
\* ---- account with a ledger, no money, MaxQty of security A at the broker,
\* ---- one lot of it dealt by the strategy
InitRace == InitOf(LedgerConfigs({"acc1"}), {0})
SyncBalanceRace == SyncBalanceOf(BrokerBalances(0, 0))
SyncPositionRace ==
    SyncPositionBegin({Some({PositionData("A", "Direction.LONG", hp, MaxQty)}) :
                          hp \in 1..MaxPrice})
TradePositionRace == TradePositionOf(PositionLists({1}, {}))

NextRace ==
    \/ SyncBalanceRace
    \/ TradePositionRace
    \/ Start
    \/ BeginTick
    \/ PositionSelect
    \/ PositionDelete
    \/ PositionRead
    \/ PositionInsert
    \/ SyncPositionRace
    \/ SyncPositionDelete
    \/ SyncPositionInsert
    \/ SyncPositionReload
    \/ SyncPositionAssign

SpecRace == InitRace /\ [][NextRace]_vars

\* =============================================================== claims
\* the balance rows of the configured broker account
AccountRows == BalanceIdsOf(balance, gateway)

\* the balance rows sharing the broker_account_id of the broker account
SameAccountId ==
    {i \in 1..Len(balance) :
        \E j \in AccountRows :
            balance[i].broker_account_id = balance[j].broker_account_id}

\* the rows of the broker account attributed to named strategies
NonDefaultRows ==
    {i \in AccountRows : balance[i].strategy_account # DefaultAccount}

\* the handler that ran last is op, run with a ledger
Ran(op) == last.op = op /\ has_db

\* C1: right after a sync_broker_balance that completed with a ledger, the
\* cash, and the power, of the rows sharing the broker account's
\* broker_account_id add up to the cash, and the power, of the broker
\* snapshot the call used.
C1_BalanceConservation ==
    (Ran("sync_broker_balance") /\ last.outcome = "done") =>
        /\ SameAccountId # {}
        /\ SumField(balance, SameAccountId, "cash") = Val(last.reply).cash
        /\ SumField(balance, SameAccountId, "power") = Val(last.reply).power

\* a later sync has just moved one field of the default row
C1_Witness ==
    /\ Ran("sync_broker_balance")
    /\ last.outcome = "done"
    /\ last.writes = 1
    /\ Val(last.reply).cash > 0

\* C3: a sync_broker_balance whose broker snapshot reports less cash than
\* the non-default rows of the broker account hold ends in a fatal error
\* having written nothing.
C3_NegativeDeltaAborts ==
    [][(/\ last'.op = "sync_broker_balance"
        /\ has_db
        /\ ~IsNone(last'.reply)
        /\ Val(last'.reply).cash < SumField(balance, NonDefaultRows, "cash"))
       => (/\ last'.outcome = "fatal"
           /\ last'.writes = 0
           /\ balance' = balance
           /\ position' = position)]_vars

\* such a sync has just aborted
C3_Witness ==
    /\ Ran("sync_broker_balance")
    /\ last.outcome = "fatal"
    /\ ~IsNone(last.reply)
    /\ Val(last.reply).cash < SumField(balance, NonDefaultRows, "cash")

\* C4: a sync_broker_balance that follows a sync_broker_balance with the same
\* broker snapshot, nothing having run in between, issues no ledger write.
C4_SecondSyncWritesNothing ==
    (last.op = "sync_broker_balance" /\ last.again) => last.writes = 0

\* the second of two syncs with one snapshot has completed on a ledger that
\* holds the rows of the broker account
C4_Witness ==
    /\ Ran("sync_broker_balance")
    /\ last.again
    /\ last.outcome = "done"
    /\ AccountRows # {}
    /\ Val(last.reply).cash > 0

\* C6: once the broker account has balance rows (a first-time sync has run),
\* exactly one of them is the default row, strategy_account "default" and
\* strategy_version "1.0".
C6_UniqueDefaultRow ==
    (has_db /\ AccountRows # {}) =>
        Cardinality({i \in AccountRows :
                        /\ balance[i].strategy_account = DefaultAccount
                        /\ balance[i].strategy_version = DefaultVersion}) = 1

\* C9: right after a sync_broker_balance that completed with a ledger, the
\* row of the running strategy exists and portfolio.account_balance is that
\* row.
C9_BalanceIsCommittedRow ==
    (Ran("sync_broker_balance") /\ last.outcome = "done") =>
        /\ ~IsNone(portfolio.account_balance)
        /\ ~IsNone(get_db_balance(balance, strategy_account,
                                  strategy_version).value)
        /\ portfolio.account_balance =
               get_db_balance(balance, strategy_account,
                              strategy_version).value

AccountPositions == {r \in position : r.balance_id \in AccountRows}

\* the quantity the rows `rows` hold of security s in direction name d
RECURSIVE Quantity(_, _, _)
Quantity(rows, s, d) ==
    IF rows = {} THEN 0
    ELSE LET r == CHOOSE x \in rows : TRUE
         IN (IF r.security = s /\ r.direction = d THEN r.quantity ELSE 0)
            + Quantity(rows \ {r}, s, d)

\* the quantity the broker reports for security s in direction name d
Reported(reply, s, d) ==
    Quantity({PositionRow(0, b) : b \in Val(reply)}, s, d)

\* C2: right after a sync_broker_position that completed with a ledger, for
\* every (security, direction) the quantities of the position rows of the
\* broker account add up to the quantity the broker reports (0 when it
\* reports none), and no position row holds a negative quantity.
C2_PositionConservation ==
    (Ran("sync_broker_position") /\ last.outcome = "done") =>
        /\ \A s \in Securities, d \in {DirectionName(x) : x \in Direction} :
              Quantity(AccountPositions, s, d) = Reported(last.reply, s, d)
        /\ \A r \in position : r.quantity >= 0

\* C7 as stated: a sync whose broker reply is None or empty changes no
\* ledger row and no portfolio field.
C7_EmptyReplyIsNoOp ==
    [][(\/ /\ last'.op = "sync_broker_balance"
           /\ IsNone(last'.reply)
        \/ /\ last'.op = "sync_broker_position"
           /\ (IsNone(last'.reply) \/ Val(last'.reply) = {}))
       => UNCHANGED <<balance, position, portfolio>>]_vars

\* C7, amended: a sync whose broker reply is None changes no ledger row and
\* no portfolio field and issues no write; an empty position list is a
\* snapshot with no position: after a sync_broker_position that completed
\* with it on a ledger the default row owns no position row.
C7_NoneReplyIsNoOp ==
    [][/\ (/\ last'.op \in {"sync_broker_balance", "sync_broker_position"}
           /\ IsNone(last'.reply))
          => (/\ UNCHANGED <<balance, position, portfolio>>
              /\ last'.outcome = "noop"
              /\ last'.writes = 0)
       /\ (/\ last'.op = "sync_broker_position"
           /\ has_db
           /\ ~IsNone(last'.reply)
           /\ Val(last'.reply) = {}
           /\ last'.outcome = "done")
          => \A r \in position' :
                 r.balance_id \in AccountRows =>
                     balance[r.balance_id].strategy_account
                         # DefaultAccount]_vars

\* a sync_broker_position has just met a None reply on a ledger that holds
\* position rows
C7_Witness ==
    /\ Ran("sync_broker_position")
    /\ IsNone(last.reply)
    /\ last.outcome = "noop"
    /\ AccountPositions # {}

\* C8: a sync_broker_position on a ledger where a non-default position row
\* with quantity > 0 has a key the broker snapshot does not report ends in a
\* fatal error.
C8_MissingBrokerKeyIsFatal ==
    (/\ Ran("sync_broker_position")
     /\ ~IsNone(last.reply)
     /\ \E r \in AccountPositions :
           /\ balance[r.balance_id].strategy_account # DefaultAccount
           /\ r.quantity > 0
           /\ Reported(last.reply, r.security, r.direction) = 0
           /\ \A b \in Val(last.reply) :
                 ~(b.security = r.security
                   /\ DirectionName(b.direction) = r.direction))
        => last.outcome = "fatal"

\* the reload of what a tick persisted
Reloaded ==
    LET ids == StrategyIdsOf(balance, gateway, strategy_account,
                             strategy_version)
    IN [balance |-> get_db_balance(balance, strategy_account,
                                   strategy_version),
        position |-> get_db_position(position, CHOOSE i \in ids : TRUE)]

\* the positions get_db_position hands back: None, its answer when the
\* ledger holds no row, is no position (as sync_broker_position reads it)
ReloadedPositions ==
    IF IsNone(Reloaded.position.value) THEN {}
    ELSE Val(Reloaded.position.value)

\* the tick that ran last persisted the balance and the positions
Persisted ==
    /\ Ran("persist_data")
    /\ last.outcome = "done"
    /\ StrategyIdsOf(balance, gateway, strategy_account,
                     strategy_version) # {}

\* C5: right after a tick on an existing balance row, get_db_balance returns
\* the four in-memory balance fields and get_db_position the in-memory set of
\* (security, direction, quantity, holding_price), the empty set included.
C5_RoundTrip ==
    Persisted =>
        /\ ~Reloaded.balance.fatal
        /\ Reloaded.balance.value = portfolio.account_balance
        /\ ~Reloaded.position.fatal
        /\ ReloadedPositions = portfolio.position

\* a tick has just written a changed balance and two positions
C5_Witness ==
    /\ Persisted
    /\ last.writes >= 3
    /\ Cardinality(portfolio.position) = 2
    /\ Val(portfolio.account_balance).max_power_short = 0

\* C11: no position row of the ledger ever holds quantity 0: every path
\* that writes position rows leaves out an entry whose quantity is 0.
C11_NoZeroQuantityRow == \A r \in position : r.quantity # 0

\* C12: the connection of the persistence loop is closed only after the
\* loop has seen the flag false: while an iteration is in progress (the
\* loop is about to call persist_account_balance or persist_position)
\* engine.db is open, and no call of the loop has met a closed connection.
C12_GracefulStop ==
    /\ pc \in {"balance", "position"} => db \notin closed
    /\ last.op \in {"persist_account_balance", "persist_position"} =>
          Val(last.conn) \notin closed

\* C13: while the persistence thread is alive, a sync_broker_balance or
\* sync_broker_position on the caller's thread that reaches the ledger does
\* not go through the connection persist_data opened.
C13_SeparateConnections ==
    (/\ last.op \in {"sync_broker_balance", "sync_broker_position"}
     /\ persist_t = "alive"
     /\ ~IsNone(last.conn))
        => Val(last.conn) # "loop"

\* C19: once the thread has been started and stop() has cleared the flag,
\* the persistence thread ends, unless a later start() sets the flag again
\* first; the flag is looked at between iterations only: an iteration under
\* way goes on to its end whatever the flag, no iteration starts while the
\* flag is false, and the loop that saw it false does nothing but leave.
C19_StopTerminates ==
    /\ (pc # "new" /\ ~persist_active) ~> (persist_t = "dead" \/ persist_active)
    /\ [][/\ (pc = "test" /\ ~persist_active) => pc' # "balance"
          /\ pc = "close" => pc' \in {"close", "done"}
          /\ (pc = "balance" /\ pc' # pc) => pc' \in {"position", "failed"}
          /\ (pc = "position" /\ pc' # pc) => pc' \in {"test", "failed"}]_vars

\* stop() was called during an iteration and the loop has left
C19_Witness ==
    /\ pc = "done"
    /\ ~persist_active
    /\ last.op = "persist_close"
    /\ "loop" \in closed

\* a sync_broker_balance reaches a ledger that holds no balance row of the
\* broker account
Bootstrapping ==
    /\ last'.op = "sync_broker_balance"
    /\ has_db
    /\ ~IsNone(last'.reply)
    /\ AccountRows = {}
    /\ ~IsNone(portfolio.account_balance)

\* C14: the first sync_broker_balance of a broker account, with a broker
\* snapshot not below the local balance in cash and in power, appends exactly
\* two rows of the broker account: they share a broker_account_id no other
\* row has, their strategy_account_id are consecutive and no other row has
\* them, the first is the default row with (broker.cash - local.cash,
\* broker.power - local.power), the second the row of the running strategy
\* with (local.cash, local.power); with a snapshot below the local balance in
\* cash or in power the call ends in a fatal error and inserts nothing.
C14_Bootstrap ==
    [][Bootstrapping =>
        LET broker == Val(last'.reply)
            local == Val(portfolio.account_balance)
            n == Len(balance)
        IN IF broker.cash >= local.cash /\ broker.power >= local.power
           THEN /\ Len(balance') = n + 2
                /\ SubSeq(balance', 1, n) = balance
                /\ LET d == balance'[n + 1]
                       s == balance'[n + 2]
                   IN /\ d.broker_account = gateway
                      /\ s.broker_account = gateway
                      /\ d.broker_account_id = s.broker_account_id
                      /\ s.strategy_account_id = d.strategy_account_id + 1
                      /\ \A i \in 1..n :
                            /\ balance[i].broker_account_id
                                   # d.broker_account_id
                            /\ balance[i].strategy_account_id
                                   \notin {d.strategy_account_id,
                                           s.strategy_account_id}
                      /\ d.strategy_account = DefaultAccount
                      /\ d.cash = broker.cash - local.cash
                      /\ d.power = broker.power - local.power
                      /\ s.strategy_account = strategy_account
                      /\ s.strategy_version = strategy_version
                      /\ s.cash = local.cash
                      /\ s.power = local.power
           ELSE /\ last'.outcome = "fatal"
                /\ last'.writes = 0
                /\ UNCHANGED <<balance, position, portfolio>>]_vars

\* the second broker account of the ledger has just been bootstrapped, its
\* default row taking cash and its strategy row holding power
C14_Witness ==
    /\ Ran("sync_broker_balance")
    /\ last.writes = 2
    /\ Len(balance) = 4
    /\ balance[3].cash > 0
    /\ balance[4].power > 0

\* C15: a sync_broker_balance that ends in a fatal error, on whichever field
\* and in whichever branch, leaves every balance row and
\* portfolio.account_balance as they were before the call.
C15_AtomicAbort ==
    [][(last'.op = "sync_broker_balance" /\ last'.outcome = "fatal")
        => UNCHANGED <<balance, portfolio>>]_vars

\* the default row of the broker account
DefaultRow == Min({i \in AccountRows :
                      balance[i].strategy_account = DefaultAccount})

\* C16: a sync_broker_balance that completes on a broker account with
\* balance rows sets the cash, and the power, of the default row to its old
\* value plus (broker value - sum of the field over the rows of the
\* account), and changes nothing else in the balance table.
C16_OnlyDefaultRowMoves ==
    [][(/\ last'.op = "sync_broker_balance"
        /\ has_db
        /\ ~IsNone(last'.reply)
        /\ AccountRows # {}
        /\ last'.outcome = "done")
       => LET broker == Val(last'.reply)
              new(field) ==
                  balance[DefaultRow][field]
                      + (broker[field] - SumField(balance, AccountRows, field))
          IN balance' = [balance EXCEPT ![DefaultRow].cash = new("cash"),
                                        ![DefaultRow].power = new("power")]
       ]_vars

\* a later sync has just moved one field of a default row that holds cash
\* and power, next to a strategy row that holds cash (one write: the
\* bootstrap issues two)
C16_Witness ==
    /\ Ran("sync_broker_balance")
    /\ last.outcome = "done"
    /\ last.writes = 1
    /\ Len(balance) = 2
    /\ balance[1].cash > 0
    /\ balance[1].power > 0
    /\ balance[2].cash > 0

\* the rows among `rows` owned by the default row of the broker account
OwnedByDefault(rows) ==
    {r \in rows : /\ r.balance_id \in AccountRows
                  /\ balance[r.balance_id].strategy_account = DefaultAccount}

\* the rows among `rows` owned by the other rows of the broker account
OwnedByOthers(rows) ==
    {r \in rows : /\ r.balance_id \in AccountRows
                  /\ balance[r.balance_id].strategy_account # DefaultAccount}

\* the rows among `rows` with the key of broker entry b
WithKey(rows, b) ==
    {r \in rows : /\ r.security = b.security
                  /\ r.direction = DirectionName(b.direction)}

Exceeded(b) ==
    Quantity(OwnedByOthers(position), b.security, DirectionName(b.direction))
        > b.quantity

\* C18: a sync_broker_position whose broker snapshot reports, for some key,
\* less than the non-default rows of the account hold of it ends in a fatal
\* error having written nothing: the position rows and portfolio.position
\* are as before the call.
C18_NegativeRemainderAborts ==
    [][(/\ last'.op = "sync_broker_position"
        /\ has_db
        /\ ~IsNone(last'.reply)
        /\ \E b \in Val(last'.reply) : Exceeded(b))
       => (/\ last'.outcome = "fatal"
           /\ last'.writes = 0
           /\ UNCHANGED <<balance, position, portfolio>>)]_vars

\* such a sync has just aborted on a ledger where the default row owns a
\* position row
C18_Witness ==
    /\ Ran("sync_broker_position")
    /\ last.outcome = "fatal"
    /\ ~IsNone(last.reply)
    /\ \E b \in Val(last.reply) : Exceeded(b)
    /\ OwnedByDefault(position) # {}

\* the balance rows of the running strategy under the configured broker
\* account
StrategyRows ==
    StrategyIdsOf(balance, gateway, strategy_account, strategy_version)

\* C20: an iteration of the persistence loop on a ledger with no balance row
\* of the running strategy writes nothing, changes no balance row, no
\* position row and no portfolio field, and leaves the loop running, ready
\* for its next iteration.
C20_TickBeforeSyncSkips ==
    [][(last'.op = "persist_data" /\ StrategyRows = {})
       => (/\ last'.outcome = "noop"
           /\ last'.writes = 0
           /\ UNCHANGED <<balance, position, portfolio>>
           /\ persist_t' = "alive"
           /\ pc' = "test"
           /\ persist_active')]_vars

\* an iteration has just skipped with a traded balance and two positions in
\* memory
C20_Witness ==
    /\ Ran("persist_data")
    /\ last.outcome = "noop"
    /\ StrategyRows = {}
    /\ Cardinality(portfolio.position) = 2
    /\ Val(portfolio.account_balance).net_cash_power = 0

\* the four fields persist_account_balance compares
BalanceFields == {"cash", "power", "max_power_short", "net_cash_power"}

\* the fields of the in-memory balance whose value is not the one of the
\* strategy's ledger row `id`
Differing(id) ==
    {f \in BalanceFields :
        Val(portfolio.account_balance)[f] # balance[id][f]}

\* C21: an iteration of the persistence loop on a ledger that holds the
\* strategy's balance row issues one balance update when some of cash,
\* power, max_power_short, net_cash_power differs between memory and the
\* row and none otherwise; the update sets exactly the differing fields of
\* the row to the in-memory values and leaves every other field of it
\* alone; and an iteration that directly follows a completed iteration
\* issues no balance update.
C21_DiffOnlyWrite ==
    [][(/\ last'.op = "persist_data"
        /\ StrategyRows # {}
        /\ ~IsNone(portfolio.account_balance))
       => LET id == CHOOSE i \in StrategyRows : TRUE
              b == persist_account_balance(balance, position)
          IN /\ b.writes = (IF Differing(id) = {} THEN 0 ELSE 1)
             /\ b.writes = 0 => balance' = balance
             /\ \A f \in DOMAIN balance[id] :
                   balance'[id][f] =
                      IF f \in Differing(id)
                      THEN Val(portfolio.account_balance)[f]
                      ELSE balance[id][f]
             /\ (last.op = "persist_data" /\ last.outcome = "done")
                   => b.writes = 0]_vars

\* an iteration has just followed a completed iteration, on a row that
\* holds a traded balance an earlier iteration wrote
C21_Witness ==
    /\ Ran("persist_data")
    /\ last.again
    /\ last.outcome = "done"
    /\ StrategyRows # {}
    /\ \E i \in StrategyRows :
          /\ balance[i].max_power_short = 0
          /\ balance[i].net_cash_power = NoPower
          /\ balance[i].cash = MaxPower

\* C22: an iteration of the persistence loop changes only rows of the
\* running strategy under the configured broker account: every other balance
\* row (the default row, a row of another strategy, a row under another
\* broker account) and every position row owned by such a balance row is
\* after the iteration what it was before.
C22_TickFrame ==
    [][last'.op = "persist_data"
       => (/\ Len(balance') = Len(balance)
           /\ \A i \in 1..Len(balance) :
                 i \notin StrategyRows => balance'[i] = balance[i]
           /\ {r \in position' : r.balance_id \notin StrategyRows}
                 = {r \in position : r.balance_id \notin StrategyRows})]_vars

\* C23: when one sync_broker_position and one iteration of the persistence
\* loop started from a ledger that held the strategy's in-memory positions,
\* ran in any interleaving of their ledger operations with no deal in
\* between, and one further iteration has run after both, the in-memory
\* positions and the strategy's position rows are the ones the race started
\* from.
C23_RaceKeepsPositions ==
    (~IsNone(before) /\ Val(before).tick = "checked")
        => (/\ portfolio.position = Val(before).position
            /\ StrategyPositions(position) = Val(before).rows)

====
